---- MODULE Spec2Model ----
(***************************************************************************)
(* fastapi_motor_oil: the generic CRUD service MongoService (service.py)   *)
(* and the validating value types UTCDatetime and StrObjectId (model.py).  *)
(*                                                                         *)
(* Spec     one MongoService instance used by a single owner; one action   *)
(*          per public method or property.                                 *)
(* SpecUTC  UTCDatetime validation applied to bounded inputs.              *)
(* SpecOid  StrObjectId validation applied to bounded inputs.              *)
(***************************************************************************)
EXTENDS Integers, Sequences, FiniteSets, TLC

VARIABLES
    _collection_name,     \* self._collection_name
    _collection_options,  \* self._collection_options
    _collection,          \* self._collection: PyNone or a collection handle
    hooks,                \* "default", or "override": a subclass whose hooks validate
    dbCalls,              \* the calls made on self._database, in order
    touched,              \* an operation or a `collection` access has happened
    last,                 \* the last public call: its name, arguments, environment
    lastCalls,            \* the collection-handle calls the last public call made
    ret,                  \* what the last public call gave its caller
    usedHandles,          \* ids of every handle returned by `collection` so far
    value,                \* the raw value given to a validator
    validated,            \* the validator's outcome
    sched,                \* how concurrent callers are scheduled: "loop" or "threads"
    pc,                   \* each concurrent caller's position in its public call
    made,                 \* the handle each caller created in `collection`, if any
    writes,               \* the callers that assigned self._collection, in order
    got                   \* the handle `collection` returned to each caller

raceVars == << sched, pc, made, writes, got >>

vars == << _collection_name, _collection_options, _collection, hooks, dbCalls,
           touched, last, lastCalls, ret, usedHandles, value, validated,
           sched, pc, made, writes, got >>

serviceVars == << _collection_name, _collection_options, _collection, hooks,
                  dbCalls, touched, last, lastCalls, ret, usedHandles,
                  sched, pc, made, writes, got >>

----------------------------------------------------------------------------
(* Python values.  Every value is a record tagged by its type, so that     *)
(* values of different types compare unequal.                              *)

PyNone == [t |-> "None"]
PyBool(b) == [t |-> "bool", b |-> b]
PyInt(n) == [t |-> "int", n |-> n]
PyStr(s) == [t |-> "str", s |-> s]
PyObj(o) == [t |-> "object", o |-> o]
PyOid(n) == [t |-> "ObjectId", n |-> n]
PyDict(d) == [t |-> "dict", d |-> d]
PyModel(cls, values, fields_set) ==
    [t |-> "model", cls |-> cls, values |-> values, fields_set |-> fields_set]

EmptyDict == << >>

\* All mappings from a subset of `names` to the values `vals[name]`.
Mappings(names, vals) ==
    UNION { { m \in [D -> UNION { vals[n] : n \in D }] :
                \A n \in D : m[n] \in vals[n] } : D \in SUBSET names }

Ok(v) == [k |-> "return", v |-> v]
Raise(e) == [k |-> "raise", e |-> e]

\* `x or {}` followed by ** unpacking: None and the empty dict give no keywords.
or_empty(x) == IF x = PyNone THEN EmptyDict ELSE x.d

----------------------------------------------------------------------------
(* Bounds of the model.                                                    *)

NumIds == 2       \* document identifiers used by the by-id operations
NumAges == 2      \* values of the integer model field beyond its default
NumTasks == 2     \* concurrent callers of one instance

Tasks == 1..NumTasks

\* No concurrent caller has started.
RaceIdle ==
    /\ sched = "loop"
    /\ pc = [t \in Tasks |-> "idle"]
    /\ made = [t \in Tasks |-> PyNone]
    /\ writes = << >>
    /\ got = [t \in Tasks |-> PyNone]

(* The inputs the owner draws from.                                        *)

Ids == { PyOid(n) : n \in 1..NumIds }
Session1 == PyObj("session1")
Collation1 == PyObj("collation1")

CollectionNames == { "users" }
CollectionOptionsSet ==
    { PyNone, PyDict("write_concern" :> PyObj("majority")) }

OptionValues == [session |-> { Session1 }, comment |-> { PyStr("c") }]
OptionsSet ==
    { PyNone } \cup { PyDict(m) : m \in Mappings({"session"}, OptionValues) }

KwargsSet == Mappings({"comment"}, OptionValues)

Queries == { PyNone, PyDict("name" :> PyStr("a")) }
Projections == { PyNone, PyDict("name" :> PyInt(1)) }
Pipelines == { PyObj("pipeline1") }
IndexKeys == { PyStr("name"), PyObj("keys1") }

----------------------------------------------------------------------------
(* The insert and update models (TInsert, TUpdate): pydantic models with    *)
(* the fields `name` and `age`.  `name` is required on insert and defaults  *)
(* to None on update; `age` has the non-null default 18 on both.  Neither   *)
(* model declares an identifier field.                                      *)

ModelFields == { "name", "age" }
FieldDefault == [name |-> PyNone, age |-> PyInt(18)]
FieldValues ==
    [name |-> { PyStr("a") },
     age |-> { PyInt(17 + k) : k \in 1..NumAges }]
RequiredFields(cls) == IF cls = "TInsert" THEN { "name" } ELSE { }

\* An instance built from the explicitly given fields `given`: every field
\* gets its given value or its default, and the given ones are remembered.
NewModel(cls, given) ==
    PyModel(cls,
            [f \in ModelFields |->
                IF f \in DOMAIN given THEN given[f] ELSE FieldDefault[f]],
            DOMAIN given)

Instances(cls) ==
    { NewModel(cls, g) : g \in { m \in Mappings(ModelFields, FieldValues) :
                                    RequiredFields(cls) \subseteq DOMAIN m } }

\* BaseModel.dict(exclude_unset=...)
model_dict(data, exclude_unset) ==
    IF exclude_unset
    THEN [f \in data.fields_set |-> data.values[f]]
    ELSE data.values

\* Mutant of _prepare_for_insert: serializes the explicitly set fields only.
_prepare_for_insert_set_only(data) == PyDict(model_dict(data, TRUE))

_prepare_for_insert(data) == PyDict(model_dict(data, FALSE))

\* Mutant of _prepare_for_update: serializes every field, defaults included.
_prepare_for_update_all_fields(data) ==
    PyDict("$set" :> PyDict(model_dict(data, FALSE)))

_prepare_for_update(data) == PyDict("$set" :> PyDict(model_dict(data, TRUE)))

\* The hook as the instance runs it: the default, or an override that raises
\* when the data fails its domain rules (hookRaises) and otherwise returns
\* what the default returns.
RunHook(payload, hookRaises) ==
    IF hooks = "override" /\ hookRaises THEN Raise("HookError") ELSE Ok(payload)

HookChoices == IF hooks = "override" THEN BOOLEAN ELSE { FALSE }

----------------------------------------------------------------------------
(* The collection handle.                                                  *)

GetCollectionCall ==
    [op |-> "get_collection",
     pos |-> << PyStr(_collection_name) >>,
     kw |-> or_empty(_collection_options)]

\* database.get_collection(...) returns a new handle on every call.
_create_collection ==
    [h |-> [t |-> "collection", id |-> Len(dbCalls) + 1,
            name |-> _collection_name, kw |-> or_empty(_collection_options)],
     db |-> Append(dbCalls, GetCollectionCall)]

\* Mutant of `collection`: no check of the cache, a new handle on every access.
collection_uncached == _create_collection

\* The `collection` property: the handle it returns (which it also stores in
\* self._collection) and the calls made on the database so far.
collection ==
    IF _collection = PyNone
    THEN _create_collection
    ELSE [h |-> _collection, db |-> dbCalls]

\* One call on a collection handle, with the store's answer to it.
Call(h, op, pos, kw, out) ==
    [h |-> h.id, op |-> op, pos |-> pos, kw |-> kw, out |-> out]

\* The effect of one public call: the handle resolution, the collection-handle
\* calls made, and what the caller gets.
Exec(c, calls, r) == [col |-> c, calls |-> calls, ret |-> r]

\* Binding of a keyword parameter: the caller's value, or the default.
Arg(named, p, default) == IF p \in DOMAIN named THEN named[p] ELSE default

----------------------------------------------------------------------------
(* The public methods.  Each gives the effect of one call, in Python's     *)
(* order of evaluation: `self.collection` first, then the arguments (the   *)
(* hook among them), then the call on the handle.  `out` is the store's    *)
(* answer to that call.                                                    *)

aggregate(pipeline, named, kwargs, out) ==
    LET session == Arg(named, "session", PyNone)
        c == collection
    IN  Exec(c, << Call(c.h, "aggregate", << pipeline >>,
                        ("session" :> session) @@ kwargs, out) >>, out)

create_index(keys, named, kwargs, out) ==
    LET c == collection
        kw == [name |-> named["name"],
               unique |-> Arg(named, "unique", PyBool(FALSE)),
               session |-> Arg(named, "session", PyNone),
               background |-> Arg(named, "background", PyBool(FALSE)),
               collation |-> Arg(named, "collation", PyNone),
               sparse |-> Arg(named, "sparse", PyBool(FALSE))]
    IN  Exec(c, << Call(c.h, "create_index", << keys >>, kw @@ kwargs, out) >>, out)

drop_index(index_or_name, named, kwargs, out) ==
    LET session == Arg(named, "session", PyNone)
        c == collection
    IN  Exec(c, << Call(c.h, "drop_index", << index_or_name >>,
                        ("session" :> session) @@ kwargs, out) >>, out)

drop_indexes(named, kwargs, out) ==
    LET session == Arg(named, "session", PyNone)
        c == collection
    IN  Exec(c, << Call(c.h, "drop_index", << session >>, kwargs, out) >>, out)

list_indexes(named, kwargs, out) ==
    LET session == Arg(named, "session", PyNone)
        c == collection
    IN  Exec(c, << Call(c.h, "list_indexes", << session >>, kwargs, out) >>, out)

\* Mutant of delete_many: a store error is retried once before it is passed on.
delete_many_retrying(query, options, out) ==
    LET c == collection
        call == Call(c.h, "delete_many", << query >>, or_empty(options), out)
    IN  Exec(c, IF out.k = "raise" THEN << call, call >> ELSE << call >>, out)

delete_many(query, options, out) ==
    LET c == collection
    IN  Exec(c, << Call(c.h, "delete_many", << query >>, or_empty(options), out) >>, out)

delete_one(query, options, out) ==
    LET c == collection
    IN  Exec(c, << Call(c.h, "delete_one", << query >>, or_empty(options), out) >>, out)

delete_by_id(id, options, out) ==
    delete_one(PyDict("_id" :> id), options, out)

\* Mutant of find: fills in a session of its own when the caller gave none.
find_defaulting(query, projection, options, out) ==
    LET c == collection
    IN  Exec(c, << Call(c.h, "find", << query, projection >>,
                        or_empty(options) @@ ("session" :> PyNone), out) >>, out)

find(query, projection, options, out) ==
    LET c == collection
    IN  Exec(c, << Call(c.h, "find", << query, projection >>,
                        or_empty(options), out) >>, out)

find_one(query, projection, options, out) ==
    LET c == collection
    IN  Exec(c, << Call(c.h, "find_one", << query, projection >>,
                        or_empty(options), out) >>, out)

get_by_id(id, projection, options, out) ==
    find_one(PyDict("_id" :> id), projection, options, out)

insert_one(data, options, hookRaises, out) ==
    LET c == collection
        doc == RunHook(_prepare_for_insert(data), hookRaises)
    IN  IF doc.k = "raise"
        THEN Exec(c, << >>, doc)
        ELSE Exec(c, << Call(c.h, "insert_one", << doc.v >>,
                             or_empty(options), out) >>, out)

update_many(query, changes, options, hookRaises, out) ==
    LET c == collection
        upd == RunHook(_prepare_for_update(changes), hookRaises)
    IN  IF upd.k = "raise"
        THEN Exec(c, << >>, upd)
        ELSE Exec(c, << Call(c.h, "update_many", << query, upd.v >>,
                             or_empty(options), out) >>, out)

\* Mutant of update_one: the handle is called before the hook's error surfaces.
update_one_store_first(query, changes, options, hookRaises, out) ==
    LET c == collection
        upd == RunHook(_prepare_for_update(changes), hookRaises)
    IN  Exec(c, << Call(c.h, "update_one", << query, _prepare_for_update(changes) >>,
                        or_empty(options), out) >>,
             IF upd.k = "raise" THEN upd ELSE out)

update_one(query, changes, options, hookRaises, out) ==
    LET c == collection
        upd == RunHook(_prepare_for_update(changes), hookRaises)
    IN  IF upd.k = "raise"
        THEN Exec(c, << >>, upd)
        ELSE Exec(c, << Call(c.h, "update_one", << query, upd.v >>,
                             or_empty(options), out) >>, out)

\* Mutant of update_by_id: queries the public field name and drops the options.
update_by_id_wrong_key(id, changes, options, hookRaises, out) ==
    update_one(PyDict("id" :> id), changes, PyNone, hookRaises, out)

update_by_id(id, changes, options, hookRaises, out) ==
    update_one(PyDict("_id" :> id), changes, options, hookRaises, out)

----------------------------------------------------------------------------
(* The owner's calls.                                                      *)

SessionArgs == Mappings({"session"}, OptionValues)

IndexOptionValues ==
    [unique |-> { PyBool(TRUE) }, session |-> { Session1 },
     background |-> { PyBool(TRUE) }, collation |-> { Collation1 },
     sparse |-> { PyBool(TRUE) }]
IndexOptionNames == { "unique", "session", "background", "collation", "sparse" }

\* create_index's keyword arguments as a caller gives them: the required
\* name, and none of the optional ones, `unique` alone, or all of them.
IndexArgs ==
    { ("name" :> PyStr("ix")) @@ m :
        m \in { x \in Mappings(IndexOptionNames, IndexOptionValues) :
                  DOMAIN x \in { { }, { "unique" }, IndexOptionNames } } }

Cursor == PyObj("cursor")
StoreError == Raise("StoreError")

\* What the store can answer to a call on the handle.  The cursor-returning
\* calls do no I/O when called; the awaited ones return a result or raise.
StoreOutcomes(op) ==
    CASE op \in { "aggregate", "list_indexes", "find" } -> { Ok(Cursor) }
      [] op = "find_one" ->
            { Ok(PyDict("name" :> PyStr("a"))), Ok(PyNone), StoreError }
      [] OTHER -> { Ok(PyObj("result")), StoreError }

\* When the hook raises the store is not asked, and there is one behaviour.
AnswersAfterHook(op, hookRaises) ==
    IF hookRaises THEN { StoreError } ELSE StoreOutcomes(op)

Req(op, pos, named, options, kwargs, hookRaises) ==
    [op |-> op, pos |-> pos, named |-> named, options |-> options,
     kwargs |-> kwargs, hookRaises |-> hookRaises]

NoReq(op) == Req(op, << >>, EmptyDict, PyNone, EmptyDict, FALSE)

\* One public call takes effect.
Do(req, e) ==
    /\ _collection' = e.col.h
    /\ dbCalls' = e.col.db
    /\ touched' = TRUE
    /\ last' = req @@ [created |-> Len(e.col.db) > Len(dbCalls)]
    /\ lastCalls' = e.calls
    /\ ret' = e.ret
    /\ usedHandles' = usedHandles \cup { e.col.h.id }
    /\ UNCHANGED << _collection_name, _collection_options, hooks, value, validated,
                    raceVars >>

Collection ==
    Do(NoReq("collection"), Exec(collection, << >>, Ok(collection.h)))

CollectionName ==
    /\ last' = NoReq("collection_name") @@ [created |-> FALSE]
    /\ lastCalls' = << >>
    /\ ret' = Ok(PyStr(_collection_name))
    /\ UNCHANGED << _collection_name, _collection_options, _collection, hooks,
                    dbCalls, touched, usedHandles, value, validated, raceVars >>

Aggregate ==
    \E pipeline \in Pipelines, named \in SessionArgs, kwargs \in KwargsSet :
    \E out \in StoreOutcomes("aggregate") :
        Do(Req("aggregate", << pipeline >>, named, PyNone, kwargs, FALSE),
           aggregate(pipeline, named, kwargs, out))

CreateIndex ==
    \E keys \in IndexKeys, named \in IndexArgs, kwargs \in KwargsSet :
    \E out \in StoreOutcomes("create_index") :
        Do(Req("create_index", << keys >>, named, PyNone, kwargs, FALSE),
           create_index(keys, named, kwargs, out))

DropIndex ==
    \E index_or_name \in IndexKeys, named \in SessionArgs, kwargs \in KwargsSet :
    \E out \in StoreOutcomes("drop_index") :
        Do(Req("drop_index", << index_or_name >>, named, PyNone, kwargs, FALSE),
           drop_index(index_or_name, named, kwargs, out))

DropIndexes ==
    \E named \in SessionArgs, kwargs \in KwargsSet :
    \E out \in StoreOutcomes("drop_indexes") :
        Do(Req("drop_indexes", << >>, named, PyNone, kwargs, FALSE),
           drop_indexes(named, kwargs, out))

ListIndexes ==
    \E named \in SessionArgs, kwargs \in KwargsSet :
    \E out \in StoreOutcomes("list_indexes") :
        Do(Req("list_indexes", << >>, named, PyNone, kwargs, FALSE),
           list_indexes(named, kwargs, out))

DeleteById ==
    \E id \in Ids, options \in OptionsSet :
    \E out \in StoreOutcomes("delete_one") :
        Do(Req("delete_by_id", << id >>, EmptyDict, options, EmptyDict, FALSE),
           delete_by_id(id, options, out))

DeleteMany ==
    \E query \in Queries, options \in OptionsSet :
    \E out \in StoreOutcomes("delete_many") :
        Do(Req("delete_many", << query >>, EmptyDict, options, EmptyDict, FALSE),
           delete_many(query, options, out))

DeleteOne ==
    \E query \in Queries, options \in OptionsSet :
    \E out \in StoreOutcomes("delete_one") :
        Do(Req("delete_one", << query >>, EmptyDict, options, EmptyDict, FALSE),
           delete_one(query, options, out))

Find ==
    \E query \in Queries, projection \in Projections, options \in OptionsSet :
    \E out \in StoreOutcomes("find") :
        Do(Req("find", << query, projection >>, EmptyDict, options, EmptyDict, FALSE),
           find(query, projection, options, out))

FindOne ==
    \E query \in Queries, projection \in Projections, options \in OptionsSet :
    \E out \in StoreOutcomes("find_one") :
        Do(Req("find_one", << query, projection >>, EmptyDict, options, EmptyDict, FALSE),
           find_one(query, projection, options, out))

GetById ==
    \E id \in Ids, projection \in Projections, options \in OptionsSet :
    \E out \in StoreOutcomes("find_one") :
        Do(Req("get_by_id", << id, projection >>, EmptyDict, options, EmptyDict, FALSE),
           get_by_id(id, projection, options, out))

InsertOne ==
    \E data \in Instances("TInsert"), options \in OptionsSet, hr \in HookChoices :
    \E out \in AnswersAfterHook("insert_one", hr) :
        Do(Req("insert_one", << data >>, EmptyDict, options, EmptyDict, hr),
           insert_one(data, options, hr, out))

UpdateById ==
    \E id \in Ids, changes \in Instances("TUpdate"), options \in OptionsSet,
       hr \in HookChoices :
    \E out \in AnswersAfterHook("update_one", hr) :
        Do(Req("update_by_id", << id, changes >>, EmptyDict, options, EmptyDict, hr),
           update_by_id(id, changes, options, hr, out))

UpdateMany ==
    \E query \in Queries, changes \in Instances("TUpdate"), options \in OptionsSet,
       hr \in HookChoices :
    \E out \in AnswersAfterHook("update_many", hr) :
        Do(Req("update_many", << query, changes >>, EmptyDict, options, EmptyDict, hr),
           update_many(query, changes, options, hr, out))

UpdateOne ==
    \E query \in Queries, changes \in Instances("TUpdate"), options \in OptionsSet,
       hr \in HookChoices :
    \E out \in AnswersAfterHook("update_one", hr) :
        Do(Req("update_one", << query, changes >>, EmptyDict, options, EmptyDict, hr),
           update_one(query, changes, options, hr, out))

\* The state after MongoService.__init__.
Init ==
    /\ _collection_name \in CollectionNames
    /\ _collection_options \in CollectionOptionsSet
    /\ _collection = PyNone
    /\ hooks \in { "default", "override" }
    /\ dbCalls = << >>
    /\ touched = FALSE
    /\ last = NoReq("__init__") @@ [created |-> FALSE]
    /\ lastCalls = << >>
    /\ ret = Ok(PyNone)
    /\ usedHandles = { }
    /\ value = PyNone
    /\ validated = Ok(PyNone)
    /\ RaceIdle

Next ==
    \/ Collection
    \/ CollectionName
    \/ Aggregate
    \/ CreateIndex
    \/ DropIndex
    \/ DropIndexes
    \/ ListIndexes
    \/ DeleteById
    \/ DeleteMany
    \/ DeleteOne
    \/ Find
    \/ FindOne
    \/ GetById
    \/ InsertOne
    \/ UpdateById
    \/ UpdateMany
    \/ UpdateOne

Spec == Init /\ [][Next]_vars

----------------------------------------------------------------------------
(* Properties of the service, checked under Spec.                          *)

HookError == Raise("HookError")

\* C1: for one instance used by a single owner, database.get_collection has
\* been called zero times before the first operation or `collection` access
\* and exactly once afterwards, with the instance's collection name and
\* collection options; every handle call of an operation is made on the
\* cached handle, and every handle `collection` ever returned is that one.
C1_OneCachedHandle ==
    /\ ~touched =>
          /\ dbCalls = << >>
          /\ _collection = PyNone
          /\ usedHandles = { }
    /\ touched =>
          /\ Len(dbCalls) = 1
          /\ dbCalls[1].op = "get_collection"
          /\ dbCalls[1].pos = << PyStr(_collection_name) >>
          /\ dbCalls[1].kw = (IF _collection_options = PyNone
                              THEN EmptyDict ELSE _collection_options.d)
          /\ _collection # PyNone
          /\ _collection.name = _collection_name
          /\ usedHandles = { _collection.id }
          /\ \A i \in 1..Len(lastCalls) : lastCalls[i].h = _collection.id

\* C1 witness: an operation that found the handle already cached and
\* forwarded its call to it.
C1_Witness ==
    /\ touched
    /\ ~last.created
    /\ last.op = "find_one"
    /\ Len(lastCalls) = 1
    /\ _collection_options # PyNone

\* C2: drop_indexes forwards to the handle's drop-all-indexes operation, with
\* the session as the session option and never as an index descriptor.
C2_DropIndexesDropsAll ==
    last.op = "drop_indexes" =>
        /\ Len(lastCalls) = 1
        /\ lastCalls[1].op = "drop_indexes"
        /\ lastCalls[1].pos = << >>
        /\ lastCalls[1].kw =
              ("session" :> Arg(last.named, "session", PyNone)) @@ last.kwargs

\* The named options a public call's caller supplied.
Supplied(req) == req.named @@ or_empty(req.options) @@ req.kwargs

\* The named options a handle call carries; list_indexes takes the session as
\* its first positional parameter.
SentOptions(call) ==
    IF call.op = "list_indexes"
    THEN ("session" :> call.pos[1]) @@ call.kw
    ELSE call.kw

OptionsOps ==
    { "delete_by_id", "delete_many", "delete_one", "find", "find_one",
      "get_by_id", "insert_one", "update_by_id", "update_many", "update_one" }

Counterpart(op) ==
    CASE op = "update_by_id" -> "update_one"
      [] op = "delete_by_id" -> "delete_one"
      [] op = "get_by_id" -> "find_one"

\* C4: a by-id operation issues the call its single-document counterpart
\* issues for the query {"_id": id}: the counterpart's handle operation, that
\* query, the same payload or projection, the same options; and its caller
\* gets the result of that call (or, for update_by_id, the hook's error with
\* no call made, as update_one gives).
C4_ByIdAsCounterpart ==
    last.op \in { "update_by_id", "delete_by_id", "get_by_id" } =>
        IF ret = HookError
        THEN last.op = "update_by_id" /\ last.hookRaises /\ lastCalls = << >>
        ELSE /\ Len(lastCalls) = 1
             /\ lastCalls[1].h = _collection.id
             /\ lastCalls[1].op = Counterpart(last.op)
             /\ lastCalls[1].pos[1] = PyDict("_id" :> last.pos[1])
             /\ last.op = "update_by_id" =>
                   lastCalls[1].pos = << PyDict("_id" :> last.pos[1]),
                                         _prepare_for_update(last.pos[2]) >>
             /\ last.op = "delete_by_id" => Len(lastCalls[1].pos) = 1
             /\ last.op = "get_by_id" =>
                   lastCalls[1].pos = << PyDict("_id" :> last.pos[1]), last.pos[2] >>
             /\ lastCalls[1].kw = or_empty(last.options)
             /\ ret = lastCalls[1].out

\* C4 witness: update_by_id with options reached the handle as update_one.
C4_Witness ==
    /\ last.op = "update_by_id"
    /\ last.options # PyNone
    /\ last.options.d # EmptyDict
    /\ Len(lastCalls) = 1
    /\ lastCalls[1].op = "update_one"
    /\ ret = lastCalls[1].out

\* C5: with the default hook, update_one and update_many send the single
\* directive {"$set": M}, M holding exactly the explicitly set fields of the
\* update model with their values; an unset field is absent from M even when
\* its default is not None.
C5_UpdateSendsSetFieldsOnly ==
    (hooks = "default" /\ last.op \in { "update_one", "update_many" }) =>
        /\ Len(lastCalls) = 1
        /\ lastCalls[1].op = last.op
        /\ LET changes == last.pos[2]
               payload == lastCalls[1].pos[2]
           IN  /\ payload.t = "dict"
               /\ DOMAIN payload.d = { "$set" }
               /\ payload.d["$set"].t = "dict"
               /\ DOMAIN payload.d["$set"].d = changes.fields_set
               /\ \A f \in changes.fields_set :
                     payload.d["$set"].d[f] = changes.values[f]

\* C5 witness: an update that set `name` only, while `age` has the non-null
\* default 18, was sent without `age`.
C5_Witness ==
    /\ hooks = "default"
    /\ last.op = "update_one"
    /\ last.pos[2].fields_set = { "name" }
    /\ last.pos[2].values["age"] = PyInt(18)
    /\ Len(lastCalls) = 1
    /\ "age" \notin DOMAIN lastCalls[1].pos[2].d["$set"].d

\* C6: with the default hook, insert_one sends a mapping with every field of
\* the insert model, set or left at its default, and no other key (no
\* identifier field); unlike an update, unset fields are included.
C6_InsertSendsAllFields ==
    (hooks = "default" /\ last.op = "insert_one") =>
        /\ Len(lastCalls) = 1
        /\ lastCalls[1].op = "insert_one"
        /\ Len(lastCalls[1].pos) = 1
        /\ LET data == last.pos[1]
               doc == lastCalls[1].pos[1]
           IN  /\ doc.t = "dict"
               /\ DOMAIN doc.d = ModelFields
               /\ "_id" \notin DOMAIN doc.d
               /\ \A f \in ModelFields :
                     doc.d[f] = IF f \in data.fields_set
                                THEN data.values[f] ELSE FieldDefault[f]

\* C6 witness: an insert that set `name` only was sent with `age` at its
\* default.
C6_Witness ==
    /\ hooks = "default"
    /\ last.op = "insert_one"
    /\ last.pos[1].fields_set = { "name" }
    /\ Len(lastCalls) = 1
    /\ lastCalls[1].pos[1].d["age"] = PyInt(18)

\* C7 as stated: when a hook raises, no call at all has been made for that
\* operation, neither on the collection handle nor on the database handle.
C7_NoCallBeforeHookError ==
    ret = HookError => (lastCalls = << >> /\ ~last.created)

\* C7 as amended: when a hook raises, the error reaches the caller and no
\* operation of the collection handle has been called; the handle itself is
\* resolved before the hook runs, so database.get_collection has been called
\* (once, by this operation when it is the instance's first use).
C7_NoHandleCallBeforeHookError ==
    ret = HookError =>
        /\ last.op \in { "insert_one", "update_one", "update_many", "update_by_id" }
        /\ last.hookRaises
        /\ lastCalls = << >>
        /\ Len(dbCalls) = 1
        /\ _collection # PyNone

\* C7 witness: the hook raised in the instance's first operation, which had
\* resolved the handle already.
C7_Witness ==
    /\ ret = HookError
    /\ last.op = "update_one"
    /\ last.created
    /\ lastCalls = << >>

DataOps ==
    { "delete_one", "delete_many", "delete_by_id", "find", "find_one",
      "get_by_id", "insert_one", "update_one", "update_many", "update_by_id" }

\* The handle operation a public data operation forwards to.
HandleOp(op) ==
    CASE op = "delete_by_id" -> "delete_one"
      [] op = "get_by_id" -> "find_one"
      [] op = "update_by_id" -> "update_one"
      [] OTHER -> op

\* One round trip: a single call of the corresponding handle operation, whose
\* answer, a result or the driver's error, is what the caller gets.
OneRoundTrip ==
    /\ Len(lastCalls) = 1
    /\ lastCalls[1].op = HandleOp(last.op)
    /\ lastCalls[1].h = _collection.id
    /\ ret = lastCalls[1].out

\* C11 as stated: every call of a public data operation results in exactly
\* one call of the corresponding handle operation, whose result or error
\* reaches the caller unchanged.
C11_ExactlyOneStoreCall ==
    last.op \in DataOps => OneRoundTrip

\* C11 as amended: a public data operation whose hook does not raise makes
\* exactly one call of the corresponding handle operation and gives its
\* caller that call's result or error unchanged; when the hook of insert_one,
\* update_one, update_many or update_by_id raises, no handle call is made.
C11_OneStoreCallUnlessHookRaises ==
    last.op \in DataOps =>
        IF ret = HookError
        THEN lastCalls = << >> /\ last.hookRaises
        ELSE OneRoundTrip

\* C11 witness: the driver raised in delete_many; the handle was called once
\* and the caller got that error.
C11_Witness ==
    /\ last.op = "delete_many"
    /\ Len(lastCalls) = 1
    /\ lastCalls[1].out = StoreError
    /\ ret = StoreError

----------------------------------------------------------------------------
(* UTCDatetime (model.py).  A date-time is its wall-clock fields and its    *)
(* tzinfo: None, a datetime.timezone (a fixed offset in minutes, with an    *)
(* optional name), or an instance of another tzinfo class that reports an   *)
(* offset (zoneinfo, pytz, dateutil).                                       *)

MaxDay == 2       \* wall-clock days 1..MaxDay
MaxHour == 3      \* wall-clock hours 0..MaxHour

Datetime(day, hour, tzinfo) ==
    [t |-> "datetime", day |-> day, hour |-> hour, tzinfo |-> tzinfo]
Timezone(off, name) == [t |-> "timezone", off |-> off, name |-> name]
OtherTzinfo(cls, off) == [t |-> "tzinfo", cls |-> cls, off |-> off]

timezone_utc == Timezone(0, "UTC")

OffsetsInMinutes == { -60, 0, 330 }
Tzinfos ==
    { PyNone }
    \cup { Timezone(off, name) : off \in OffsetsInMinutes, name \in { "UTC", "" } }
    \cup { OtherTzinfo("ZoneInfo", off) : off \in OffsetsInMinutes }

\* The offset suffix of an ISO string: none, "Z", or a signed hh:mm.
NoSuffix == [z |-> "none"]
ZSuffix == [z |-> "Z"]
OffsetSuffix(sign, hh, mm) == [z |-> "offset", sign |-> sign, hh |-> hh, mm |-> mm]
Suffixes ==
    { NoSuffix, ZSuffix, OffsetSuffix("+", 0, 0), OffsetSuffix("-", 0, 0),
      OffsetSuffix("+", 5, 30), OffsetSuffix("-", 1, 0) }

IsoString(day, hour, suffix) ==
    [t |-> "isostr", day |-> day, hour |-> hour, suffix |-> suffix]

DatetimeInputs ==
    { Datetime(d, h, tz) : d \in 1..MaxDay, h \in 0..MaxHour, tz \in Tzinfos }
    \cup { IsoString(d, h, x) : d \in 1..MaxDay, h \in 0..MaxHour, x \in Suffixes }

\* pydantic's parse_datetime, the first validator: a datetime passes through
\* unchanged; a string gives its wall-clock fields and, from its suffix, no
\* tzinfo, timezone.utc, or a fixed-offset timezone.
parse_datetime(raw) ==
    IF raw.t = "datetime" THEN raw
    ELSE Datetime(raw.day, raw.hour,
            CASE raw.suffix.z = "none" -> PyNone
              [] raw.suffix.z = "Z" -> timezone_utc
              [] OTHER ->
                    LET mins == 60 * raw.suffix.hh + raw.suffix.mm
                        off == IF raw.suffix.sign = "-" THEN 0 - mins ELSE mins
                    IN  Timezone(off, ""))

\* `tzinfo == timezone.utc`: datetime.timezone compares equal to another
\* datetime.timezone of the same offset, whatever the names, and to no object
\* of another class.
tzinfo_eq(a, b) == a.t = "timezone" /\ b.t = "timezone" /\ a.off = b.off

\* Mutant of ensure_utc: a non-UTC value is shifted to UTC instead of rejected.
ensure_utc_converting(v) ==
    LET tzinfo == v.tzinfo IN
    IF tzinfo = PyNone THEN Ok([v EXCEPT !.tzinfo = timezone_utc])
    ELSE Ok([v EXCEPT !.hour = v.hour - (tzinfo.off \div 60),
                      !.tzinfo = timezone_utc])

ensure_utc(v) ==
    LET tzinfo == v.tzinfo IN
    IF tzinfo = PyNone THEN Ok([v EXCEPT !.tzinfo = timezone_utc])
    ELSE IF tzinfo_eq(tzinfo, timezone_utc) THEN Ok(v)
    ELSE Raise("Non-UTC timezone.")

\* The validators of UTCDatetime in order: parse_datetime, then ensure_utc.
UTCDatetime_validate(raw) == ensure_utc(parse_datetime(raw))

Pending == [k |-> "pending"]

\* The service, constructed and left alone while a validator runs.
ServiceIdle ==
    /\ _collection_name = "users"
    /\ _collection_options = PyNone
    /\ _collection = PyNone
    /\ hooks = "default"
    /\ dbCalls = << >>
    /\ touched = FALSE
    /\ last = NoReq("__init__") @@ [created |-> FALSE]
    /\ lastCalls = << >>
    /\ ret = Ok(PyNone)
    /\ usedHandles = { }
    /\ RaceIdle

InitUTC ==
    /\ ServiceIdle
    /\ value \in DatetimeInputs
    /\ validated = Pending

ValidateUTC ==
    /\ validated = Pending
    /\ validated' = UTCDatetime_validate(value)
    /\ UNCHANGED << serviceVars, value >>

NextUTC == ValidateUTC

SpecUTC == InitUTC /\ [][NextUTC]_vars

\* C8: for every date-time d whose offset is zero, whatever timezone object
\* carries it, construction succeeds and returns d unchanged.
C8_UtcReturnedUnchanged ==
    validated # Pending =>
        LET d == parse_datetime(value) IN
        (d.tzinfo # PyNone /\ d.tzinfo.off = 0) => validated = Ok(d)

\* C9: construction never converts: a successful result has offset zero and
\* the wall-clock fields of the parsed input; an input without offset always
\* succeeds, stamped UTC; an input with a non-zero offset always fails with
\* "Non-UTC timezone."
C9_NeverConverts ==
    validated # Pending =>
        LET d == parse_datetime(value) IN
        /\ validated.k \in { "return", "raise" }
        /\ validated.k = "return" =>
              /\ validated.v.tzinfo # PyNone
              /\ validated.v.tzinfo.off = 0
              /\ validated.v.day = d.day
              /\ validated.v.hour = d.hour
        /\ d.tzinfo = PyNone =>
              /\ validated.k = "return"
              /\ validated.v.tzinfo = timezone_utc
        /\ (d.tzinfo # PyNone /\ d.tzinfo.off # 0) =>
              validated = Raise("Non-UTC timezone.")

\* C9 witness: a string with the offset +05:30 was rejected.
C9_Witness ==
    /\ value.t = "isostr"
    /\ value.suffix = OffsetSuffix("+", 5, 30)
    /\ validated = Raise("Non-UTC timezone.")

----------------------------------------------------------------------------
(* StrObjectId (model.py), a subclass of bson's ObjectId: a 12-byte         *)
(* identifier whose string form is 24 lower-case hexadecimal digits.        *)
(* Strings are sequences of one-character strings, bytes are sequences of   *)
(* numbers 0..255.                                                          *)

OidBytes == 12
MaxSeed == 2      \* raw strings and bytes repeat a pattern of 1..MaxSeed items

HexLower == << "0", "1", "2", "3", "4", "5", "6", "7",
               "8", "9", "a", "b", "c", "d", "e", "f" >>
HexUpper == << "0", "1", "2", "3", "4", "5", "6", "7",
               "8", "9", "A", "B", "C", "D", "E", "F" >>

IsHex(ch) == \E i \in 1..16 : HexLower[i] = ch \/ HexUpper[i] = ch
Nibble(ch) == (CHOOSE i \in 1..16 : HexLower[i] = ch \/ HexUpper[i] = ch) - 1

PyChars(chars) == [t |-> "str", chars |-> chars]
PyBytes(bytes) == [t |-> "bytes", bytes |-> bytes]
ObjectIdOf(cls, id) == [t |-> "ObjectId", cls |-> cls, id |-> id]

\* bytes.fromhex
fromhex(chars) ==
    IF Len(chars) % 2 = 0 /\ \A i \in 1..Len(chars) : IsHex(chars[i])
    THEN Ok([i \in 1..(Len(chars) \div 2) |->
                16 * Nibble(chars[2 * i - 1]) + Nibble(chars[2 * i])])
    ELSE Raise("ValueError")

\* binascii.hexlify
hexlify(bytes) ==
    [i \in 1..(2 * Len(bytes)) |->
        LET b == bytes[(i + 1) \div 2]
        IN  IF i % 2 = 1 THEN HexLower[(b \div 16) + 1] ELSE HexLower[(b % 16) + 1]]

\* str(oid)
ObjectId_str(oid) == PyChars(hexlify(oid.id))

GeneratedId == [i \in 1..OidBytes |-> 1]

\* ObjectId.__init__(oid) for the class cls: None generates an identifier,
\* 12 bytes are taken as they are, an ObjectId is copied, a 24-character
\* string is decoded from hexadecimal; anything else is an InvalidId (a
\* string) or a TypeError.
ObjectId_init(cls, oid) ==
    CASE oid = PyNone -> Ok(ObjectIdOf(cls, GeneratedId))
      [] oid.t = "bytes" /\ Len(oid.bytes) = OidBytes -> Ok(ObjectIdOf(cls, oid.bytes))
      [] oid.t = "ObjectId" -> Ok(ObjectIdOf(cls, oid.id))
      [] oid.t = "str" ->
            IF Len(oid.chars) = 2 * OidBytes /\ fromhex(oid.chars).k = "return"
            THEN Ok(ObjectIdOf(cls, fromhex(oid.chars).v))
            ELSE Raise("InvalidId")
      [] OTHER -> Raise("TypeError")

\* Python truth value of a raw value.
Truthy(v) ==
    CASE v = PyNone -> FALSE
      [] v.t = "str" -> Len(v.chars) > 0
      [] v.t = "bytes" -> Len(v.bytes) > 0
      [] v.t = "int" -> v.n # 0
      [] OTHER -> TRUE

\* ObjectId.is_valid(oid), the store's identifier-format predicate.
is_valid(oid) ==
    IF ~Truthy(oid) THEN FALSE
    ELSE ObjectId_init("ObjectId", oid).k = "return"

\* Mutant of StrObjectId.validate: constructs without asking is_valid.
validate_unchecked(v) == ObjectId_init("StrObjectId", v)

\* StrObjectId.validate
validate(v) ==
    IF ~is_valid(v)
    THEN Raise("Invalid StrObjectId")
    ELSE ObjectId_init("StrObjectId", v)

Repeat(seed, n) == [i \in 1..n |-> seed[((i - 1) % Len(seed)) + 1]]
Seeds(S) == UNION { [1..n -> S] : n \in 1..MaxSeed }

OidChars == { "0", "9", "a", "F", "g" }
OidByteValues == { 0, 171, 255 }

OidInputs ==
    { PyNone, PyInt(0), PyInt(5) }
    \cup { PyChars(Repeat(x, n)) :
            x \in Seeds(OidChars),
            n \in { 0, 10, 2 * OidBytes - 1, 2 * OidBytes, 2 * OidBytes + 1 } }
    \cup { PyBytes(Repeat(x, n)) :
            x \in Seeds(OidByteValues),
            n \in { 0, OidBytes - 1, OidBytes, OidBytes + 1 } }
    \cup { ObjectIdOf("ObjectId", Repeat(x, OidBytes)) : x \in Seeds(OidByteValues) }

InitOid ==
    /\ ServiceIdle
    /\ value \in OidInputs
    /\ validated = Pending

ValidateOid ==
    /\ validated = Pending
    /\ validated' = validate(value)
    /\ UNCHANGED << serviceVars, value >>

NextOid == ValidateOid

SpecOid == InitOid /\ [][NextOid]_vars

\* The canonical form of an accepted raw value: 24 lower-case hexadecimal
\* digits, those of a string (case folded) or of the 12 bytes.
Lower(ch) == IF IsHex(ch) THEN HexLower[Nibble(ch) + 1] ELSE ch
IsCanonicalFormOf(chars, v) ==
    /\ Len(chars) = 2 * OidBytes
    /\ \A i \in 1..Len(chars) : \E j \in 1..16 : HexLower[j] = chars[i]
    /\ v.t = "str" => chars = [i \in 1..Len(v.chars) |-> Lower(v.chars[i])]
    /\ v.t = "bytes" => fromhex(chars) = Ok(v.bytes)
    /\ v.t = "ObjectId" => fromhex(chars) = Ok(v.id)

\* C10: StrObjectId construction succeeds exactly when the raw value
\* satisfies ObjectId.is_valid; for an accepted value it returns a
\* StrObjectId whose string form is the canonical form of the value, and for
\* a rejected value it fails with "Invalid StrObjectId".
C10_ValidExactlyWhenAccepted ==
    validated # Pending =>
        /\ is_valid(value) =>
              /\ validated.k = "return"
              /\ validated.v.t = "ObjectId"
              /\ validated.v.cls = "StrObjectId"
              /\ IsCanonicalFormOf(ObjectId_str(validated.v).chars, value)
        /\ ~is_valid(value) => validated = Raise("Invalid StrObjectId")

\* C10 witness: a 24-character string with upper-case digits was accepted
\* and its identifier prints in lower case.
C10_Witness ==
    /\ value.t = "str"
    /\ validated.k = "return"
    /\ \E i \in 1..Len(value.chars) : value.chars[i] = "F"
    /\ ObjectId_str(validated.v).chars # value.chars

----------------------------------------------------------------------------
(* Concurrent first use of one instance.  Each caller makes one public      *)
(* call; its evaluation of `self.collection` is the four steps of the       *)
(* property: the test of the cache, the creation of a handle, the           *)
(* assignment, and the read that returns the cache.  Threads can be         *)
(* preempted between any two steps.  Coroutines on one event loop run from  *)
(* the start of the call to its first await without interruption, and the   *)
(* property contains no await.                                              *)

\* The caller t may take a step: always under threads; on an event loop only
\* while no other caller is between the start of its call and its await.
CanRun(t) ==
    \/ sched = "threads"
    \/ \A u \in Tasks \ { t } : pc[u] \in { "idle", "await", "done" }

\* Mutant of store_collection: the assignment keeps a handle already cached.
store_collection_if_unset(cache, handle) ==
    IF cache = PyNone THEN handle ELSE cache

\* `self._collection = self._create_collection()`: what the assignment stores.
store_collection(cache, handle) == handle

raceRest == << _collection_name, _collection_options, hooks, last, lastCalls,
               ret, value, validated, sched >>

\* The caller starts its public call and is about to evaluate self.collection.
Begin(t) ==
    /\ pc[t] = "idle"
    /\ CanRun(t)
    /\ pc' = [pc EXCEPT ![t] = "check"]
    /\ touched' = TRUE
    /\ UNCHANGED << raceRest, _collection, dbCalls, usedHandles, made, writes, got >>

\* `if self._collection is None:`
Check(t) ==
    /\ pc[t] = "check"
    /\ CanRun(t)
    /\ pc' = [pc EXCEPT ![t] = IF _collection = PyNone THEN "create" ELSE "return"]
    /\ UNCHANGED << raceRest, _collection, dbCalls, touched, usedHandles, made,
                    writes, got >>

\* `self._create_collection()`: database.get_collection is called.
Create(t) ==
    /\ pc[t] = "create"
    /\ CanRun(t)
    /\ made' = [made EXCEPT ![t] = _create_collection.h]
    /\ dbCalls' = _create_collection.db
    /\ pc' = [pc EXCEPT ![t] = "store"]
    /\ UNCHANGED << raceRest, _collection, touched, usedHandles, writes, got >>

\* `self._collection = ...`
Store(t) ==
    /\ pc[t] = "store"
    /\ CanRun(t)
    /\ _collection' = store_collection(_collection, made[t])
    /\ writes' = Append(writes, t)
    /\ pc' = [pc EXCEPT ![t] = "return"]
    /\ UNCHANGED << raceRest, dbCalls, touched, usedHandles, made, got >>

\* `return self._collection`; the operation is then called on the returned
\* handle and awaited.
Return(t) ==
    /\ pc[t] = "return"
    /\ CanRun(t)
    /\ got' = [got EXCEPT ![t] = _collection]
    /\ usedHandles' = usedHandles \cup { _collection.id }
    /\ pc' = [pc EXCEPT ![t] = "await"]
    /\ UNCHANGED << raceRest, _collection, dbCalls, touched, made, writes >>

\* The store answers and the caller's public call returns.
Resume(t) ==
    /\ pc[t] = "await"
    /\ pc' = [pc EXCEPT ![t] = "done"]
    /\ UNCHANGED << raceRest, _collection, dbCalls, touched, usedHandles, made,
                    writes, got >>

InitRace ==
    /\ _collection_name \in CollectionNames
    /\ _collection_options \in CollectionOptionsSet
    /\ _collection = PyNone
    /\ hooks = "default"
    /\ dbCalls = << >>
    /\ touched = FALSE
    /\ last = NoReq("__init__") @@ [created |-> FALSE]
    /\ lastCalls = << >>
    /\ ret = Ok(PyNone)
    /\ usedHandles = { }
    /\ value = PyNone
    /\ validated = Ok(PyNone)
    /\ sched \in { "loop", "threads" }
    /\ pc = [t \in Tasks |-> "idle"]
    /\ made = [t \in Tasks |-> PyNone]
    /\ writes = << >>
    /\ got = [t \in Tasks |-> PyNone]

NextRace ==
    \E t \in Tasks :
        \/ Begin(t)
        \/ Check(t)
        \/ Create(t)
        \/ Store(t)
        \/ Return(t)
        \/ Resume(t)

SpecRace == InitRace /\ [][NextRace]_vars

====
